---- MODULE Spec2Model ----
(***************************************************************************)
(* Model of the authorization, voting and authentication core of the       *)
(* polling application: the server actions of app/lib/actions, the         *)
(* services of app/lib/services and the rate limiter of app/lib/utils.     *)
(*                                                                         *)
(* Strings are sequences of one-character strings, so that trimming,       *)
(* lower-casing and sanitizing are computed and not assumed.               *)
(* Every await on the data store is one step of a request: requests        *)
(* interleave between their data store calls.                              *)
(***************************************************************************)
EXTENDS Integers, Sequences, FiniteSets, TLC

\* ------------------------------------------------------------------ bounds
NumReqs == 2     \* request slots that may be in flight together
MaxPolls == 1    \* poll rows ever stored (ids are never reused)
MaxVotes == 2    \* vote rows ever inserted
MaxTime == 1     \* the clock of the polls specification runs 0..MaxTime
MaxWindows == 2  \* the clock of the authentication specification runs over this many windows
MaxFailed == 6   \* rejected logins of one email recorded inside one window
MaxCount == 6    \* the count that increment may bring a rate limiter entry to

\* ------------------------------------------------------------- identities
Users == {"alice", "bob", "root"}
Anonymous == "anonymous"
Callers == Users \cup {Anonymous}

\* user.user_metadata?.role, as the identity provider returns it
role(u) == IF u = "root" THEN "admin" ELSE "member"

\* ---------------------------------------------------------------- strings
Whitespace == {" "}
\* the characters of /[<>"']/ and the backquote, written "backquote" here
UnsafeChars == {"<", ">", "\"", "'", "backquote"}

RECURSIVE dropLeading(_)
dropLeading(s) ==
  IF s # <<>> /\ Head(s) \in Whitespace THEN dropLeading(Tail(s)) ELSE s

RECURSIVE dropTrailing(_)
dropTrailing(s) ==
  IF s # <<>> /\ s[Len(s)] \in Whitespace
  THEN dropTrailing(SubSeq(s, 1, Len(s) - 1))
  ELSE s

\* String.prototype.trim
trim(s) == dropTrailing(dropLeading(s))

toLowerChar(c) ==
  CASE c = "A" -> "a"
    [] c = "B" -> "b"
    [] c = "Q" -> "q"
    [] c = "N" -> "n"
    [] c = "U" -> "u"
    [] OTHER -> c

\* String.prototype.toLowerCase
toLowerCase(s) == [i \in 1..Len(s) |-> toLowerChar(s[i])]

RECURSIVE stripUnsafe(_)
stripUnsafe(s) ==
  IF s = <<>> THEN <<>>
  ELSE IF Head(s) \in UnsafeChars THEN stripUnsafe(Tail(s))
  ELSE <<Head(s)>> \o stripUnsafe(Tail(s))

\* input.replace(UNSAFE_CHARS_REGEX, "").trim()
sanitizeInput(input) == trim(stripUnsafe(input))

\* arr.filter(Boolean) on strings: the empty string is dropped
RECURSIVE filterBoolean(_)
filterBoolean(arr) ==
  IF arr = <<>> THEN <<>>
  ELSE IF Head(arr) = <<>> THEN filterBoolean(Tail(arr))
  ELSE <<Head(arr)>> \o filterBoolean(Tail(arr))

\* [...new Set(arr)]: the first occurrence of each value, in order
RECURSIVE uniqueInOrder(_, _)
uniqueInOrder(arr, seen) ==
  IF arr = <<>> THEN <<>>
  ELSE IF Head(arr) \in seen THEN uniqueInOrder(Tail(arr), seen)
  ELSE <<Head(arr)>> \o uniqueInOrder(Tail(arr), seen \cup {Head(arr)})

\* ----------------------------------------------------------------- errors
\* A result is what a call ends with: Ok, or the error it throws. The server
\* actions of poll-actions.ts hand the caller the error's message only.
NoError == "null"
Ok == [kind |-> "none", error |-> NoError, statusCode |-> 0]

\* new AppError(message, statusCode = 400)
DEFAULT_STATUS == 400
AppError(message, statusCode) ==
  [kind |-> "AppError", error |-> message, statusCode |-> statusCode]

\* new Error(message): no statusCode
PlainError(message) == [kind |-> "Error", error |-> message, statusCode |-> 0]

\* handleError throws what it is given when that is an AppError, wraps a
\* native Error (its statusCode when it has one, else 500), and turns any
\* other value into the generic error
MsgUnexpected == "An unexpected error occurred"
handleError(e) ==
  IF e.kind = "AppError" THEN e
  ELSE IF e.kind = "Error"
       THEN AppError(e.error, IF e.statusCode # 0 THEN e.statusCode ELSE 500)
       ELSE AppError(MsgUnexpected, 500)

\* messages
MsgProvide == "Please provide a question and at least two options."
MsgQuestionLen == "Question must be between 5 and 200 characters."
MsgOptionLen == "Each option must be between 1 and 100 characters."
MsgQuestionRequired == "Question is required"
MsgQuestionShort == "Question must be at least 3 characters long"
MsgUniqueOptions == "At least 2 unique options are required"
MsgOptionTooLong == "Option exceeds maximum length"
MsgNotAuthenticated == "Not authenticated"
MsgAdminsOnly == "Unauthorized: Admins only."
MsgNoRows == "JSON object requested, multiple (or no) rows returned"
MsgNotInteger == "Option index must be an integer"
MsgNotFound == "Poll not found"
MsgNoOptions == "Poll has no options"
MsgIndexRange == "Option index must be between 0 and n-1"
MsgAuthRequired == "Authentication required to vote in this poll"
MsgEnded == "Voting for this poll has ended"
MsgCheckFailed == "Failed to check existing votes"
MsgAlreadyVoted == "You have already voted in this poll"
MsgInvalidOption == "Invalid poll option"
MsgInsertFailed == "Failed to submit vote"
MsgDeleteUnauthorized == "Unauthorized: Only the poll owner or an admin can delete this poll."
MsgUpdateUnauthorized == "Unauthorized: Only the poll owner or an admin can update this poll."
MsgUpdateLogin == "You must be logged in to update a poll."

\* ------------------------------------------------------------------ state
VARIABLES
  polls,       \* the polls relation: a set of poll rows
  votes,       \* the votes relation: a set of vote rows
  nextPollId,  \* the id the data store gives the next poll row
  nextVoteId,  \* the id the data store gives the next vote row
  now,         \* the clock read by new Date()
  req,         \* the requests in flight, by slot
  last,        \* the request that ended last, with its result, until another begins
  accepted,    \* history: how many submitVote calls returned success, by (pollId, userId)
  cache,       \* the rate limiter's Map: key -> entry, for the keys it holds
  accounts,    \* the identity provider's accounts: email -> password
  authLast,    \* the login or register call that ended last, with its result
  failed,      \* history: the rejected logins of each email in its latest window
  limiterLast  \* history: the last call of isLimited, the entry it met and its answer

vars == <<polls, votes, nextPollId, nextVoteId, now, req, last, accepted,
          cache, accounts, authLast, failed, limiterLast>>
pollVars == <<polls, votes, nextPollId, nextVoteId, req, last, accepted>>
authVars == <<cache, accounts, authLast, failed, limiterLast>>

Reqs == 1..NumReqs
PollIds == 1..MaxPolls
NullUser == "null"
NoPoll == [id |-> 0]

\* supabase.auth.getUser(): the identity of the caller's session, or null;
\* an absent session is answered with a null user and no error, which is
\* what the later checks of user presume
getUser(caller) == IF caller \in Users THEN caller ELSE NullUser

\* ------------------------------------------------------- the data store
\* .from("polls").select("*").eq("id", id): the rows with that id
selectPolls(id) == {p \in polls : p.id = id}

\* .from("votes").select("id").match({pollId, userId})
selectVotes(pollId, userId) ==
  {v \in votes : v.pollId = pollId /\ v.userId = userId}

\* mutant: a votes relation without the uniqueness constraint
insertVoteAnswerNoUnique(row) ==
  IF selectPolls(row.pollId) = {} THEN "23503" ELSE "ok"

\* What the data store answers to an insert into votes: the row must refer
\* to a stored poll, and (pollId, userId) is unique among the rows with a
\* user; 23503 and 23505 are the SQLSTATEs of the two violations.
insertVoteAnswer(row) ==
  IF selectPolls(row.pollId) = {} THEN "23503"
  ELSE IF row.userId # NullUser /\ selectVotes(row.pollId, row.userId) # {}
       THEN "23505"
       ELSE "ok"

\* mutant: an insert that meets the constraint replaces the stored row
votesAfterUpsert(row, answer) ==
  IF answer = "ok" THEN votes \cup {row}
  ELSE IF answer = "23505"
       THEN (votes \ selectVotes(row.pollId, row.userId)) \cup {row}
       ELSE votes

\* .from("votes").insert([row]): the row is added when the data store
\* accepts it, and nothing is written otherwise
votesAfterInsert(row, answer) ==
  IF answer = "ok" THEN votes \cup {row} ELSE votes

\* deleting a poll row cascades to the vote rows that refer to it
votesAfterDelete(id) == {v \in votes : v.pollId # id}

\* ------------------------------------------------------------ createPoll
QUESTION_MIN_LENGTH == 5
QUESTION_MAX_LENGTH == 200
OPTION_MIN_LENGTH == 1
OPTION_MAX_LENGTH == 100
SERVICE_QUESTION_MIN == 3
MAX_OPTION_LENGTH == 200
MIN_OPTIONS == 2

mapSeq(arr, Op(_)) == [i \in 1..Len(arr) |-> Op(arr[i])]

\* createPoll: the options of the form, sanitized, empty ones dropped
formOptions(rawOptions) == filterBoolean(mapSeq(rawOptions, sanitizeInput))

\* createPoll's input validation: the error it throws, or Ok
createValidation(question, options) ==
  IF question = <<>> \/ Len(options) < MIN_OPTIONS THEN PlainError(MsgProvide)
  ELSE IF Len(question) < QUESTION_MIN_LENGTH \/ Len(question) > QUESTION_MAX_LENGTH
       THEN PlainError(MsgQuestionLen)
  ELSE IF \E i \in 1..Len(options) :
            Len(options[i]) < OPTION_MIN_LENGTH \/ Len(options[i]) > OPTION_MAX_LENGTH
       THEN PlainError(MsgOptionLen)
  ELSE Ok

\* mutant: the options are deduplicated as written, without lower-casing
cleanedOptionsCaseSensitive(options) ==
  mapSeq(uniqueInOrder(filterBoolean(mapSeq(options, trim)), {}), trim)

\* PollService.create: trim, drop the empty, lower-case, deduplicate, re-trim
cleanedOptions(options) ==
  mapSeq(uniqueInOrder(mapSeq(filterBoolean(mapSeq(options, trim)), toLowerCase), {}),
         trim)

\* PollService.create's validation of what the action passes on
serviceValidation(question, options) ==
  IF trim(question) = <<>> THEN AppError(MsgQuestionRequired, 400)
  ELSE IF Len(trim(question)) < SERVICE_QUESTION_MIN
       THEN AppError(MsgQuestionShort, 400)
  ELSE IF Len(cleanedOptions(options)) < MIN_OPTIONS
       THEN AppError(MsgUniqueOptions, 400)
  ELSE IF \E i \in 1..Len(cleanedOptions(options)) :
            Len(cleanedOptions(options)[i]) > MAX_OPTION_LENGTH
       THEN AppError(MsgOptionTooLong, 400)
  ELSE Ok

\* the id uuidv4() gives the i-th option of the poll row being built
optionId(pollId, i) == <<pollId, i>>
NoId == <<>>

\* the row PollService.create inserts; the data store adds the id
newPoll(id, question, options, user) ==
  [id |-> id,
   createdBy |-> user,
   question |-> trim(question),
   options |-> [i \in 1..Len(cleanedOptions(options)) |->
                  [id |-> optionId(id, i), text |-> cleanedOptions(options)[i]]],
   settings |-> [allowMultipleVotes |-> FALSE, requireAuthentication |-> TRUE],
   endDate |-> {},
   private |-> FALSE]

\* mutant: PollService.create does not ask for a user
createResultNoUserCheck(rawQuestion, rawOptions, caller) ==
  LET question == sanitizeInput(rawQuestion)
      options == formOptions(rawOptions)
  IN IF createValidation(question, options) # Ok
     THEN createValidation(question, options)
     ELSE IF serviceValidation(question, options) # Ok
          THEN handleError(serviceValidation(question, options))
          ELSE Ok

\* what createPoll ends with, for a form and a caller
createResult(rawQuestion, rawOptions, caller) ==
  LET question == sanitizeInput(rawQuestion)
      options == formOptions(rawOptions)
  IN IF createValidation(question, options) # Ok
     THEN createValidation(question, options)
     ELSE IF serviceValidation(question, options) # Ok
          THEN handleError(serviceValidation(question, options))
          ELSE IF getUser(caller) = NullUser
               THEN handleError(AppError(MsgNotAuthenticated, 401))
               ELSE Ok

\* ------------------------------------------------------------ submitVote
\* An optionIndex is held in halves, so that 1 stands for 0.5: Number.isInteger
isInteger(h) == h % 2 = 0
indexOf(h) == h \div 2

\* poll.settings?.requireAuthentication ?? true
requiresAuth(poll) ==
  IF "requireAuthentication" \in DOMAIN poll.settings
  THEN poll.settings.requireAuthentication
  ELSE TRUE

\* poll.settings?.allowMultipleVotes, undefined being falsy
allowsMultipleVotes(poll) ==
  IF "allowMultipleVotes" \in DOMAIN poll.settings
  THEN poll.settings.allowMultipleVotes
  ELSE FALSE

\* poll.endDate && new Date() > new Date(poll.endDate)
hasEnded(poll, t) == \E d \in poll.endDate : t > d

\* mutant: the end date is not looked at
voteChecksNoEndDate(poll, h, user, t) ==
  IF Len(poll.options) = 0 THEN AppError(MsgNoOptions, 400)
  ELSE IF indexOf(h) < 0 \/ indexOf(h) >= Len(poll.options)
       THEN AppError(MsgIndexRange, 400)
  ELSE IF requiresAuth(poll) /\ user = NullUser
       THEN AppError(MsgAuthRequired, 401)
  ELSE Ok

\* mutant: a poll that requires identity takes the vote of a caller without
voteChecksNoIdentity(poll, h, user, t) ==
  IF Len(poll.options) = 0 THEN AppError(MsgNoOptions, 400)
  ELSE IF indexOf(h) < 0 \/ indexOf(h) >= Len(poll.options)
       THEN AppError(MsgIndexRange, 400)
  ELSE IF \E d \in poll.endDate : t > d THEN AppError(MsgEnded, 403)
  ELSE Ok

\* mutant: the end date is looked at before the caller's identity
voteChecksEndedFirst(poll, h, user, t) ==
  IF Len(poll.options) = 0 THEN AppError(MsgNoOptions, 400)
  ELSE IF indexOf(h) < 0 \/ indexOf(h) >= Len(poll.options)
       THEN AppError(MsgIndexRange, 400)
  ELSE IF \E d \in poll.endDate : t > d THEN AppError(MsgEnded, 403)
  ELSE IF requiresAuth(poll) /\ user = NullUser
       THEN AppError(MsgAuthRequired, 401)
  ELSE Ok

\* mutant: the index equal to the number of options passes the range check
voteChecksOffByOne(poll, h, user, t) ==
  IF Len(poll.options) = 0 THEN AppError(MsgNoOptions, 400)
  ELSE IF indexOf(h) < 0 \/ indexOf(h) > Len(poll.options)
       THEN AppError(MsgIndexRange, 400)
  ELSE IF requiresAuth(poll) /\ user = NullUser
       THEN AppError(MsgAuthRequired, 401)
  ELSE IF \E d \in poll.endDate : t > d THEN AppError(MsgEnded, 403)
  ELSE Ok

\* the checks of submitVote between the poll read and the votes read
voteChecks(poll, h, user, t) ==
  IF Len(poll.options) = 0 THEN AppError(MsgNoOptions, 400)
  ELSE IF indexOf(h) < 0 \/ indexOf(h) >= Len(poll.options)
       THEN AppError(MsgIndexRange, 400)
  ELSE IF requiresAuth(poll) /\ user = NullUser
       THEN AppError(MsgAuthRequired, 401)
  ELSE IF hasEnded(poll, t) THEN AppError(MsgEnded, 403)
  ELSE Ok

\* const selectedOption = poll.options[optionIndex]; it must have an id
\* (!selectedOption || !selectedOption.id)
selectedOption(poll, h) == poll.options[indexOf(h) + 1]
selectedOptionCheck(poll, h) ==
  IF indexOf(h) + 1 \notin DOMAIN poll.options THEN AppError(MsgInvalidOption, 400)
  ELSE IF selectedOption(poll, h).id = NoId THEN AppError(MsgInvalidOption, 400)
  ELSE Ok

\* requiresAuth ? user!.id : user?.id ?? null
voteUserId(poll, user) ==
  IF requiresAuth(poll) THEN user
  ELSE IF user # NullUser THEN user ELSE NullUser

\* the row submitVote inserts; the data store adds the id
newVote(id, poll, h, user) ==
  [id |-> id,
   pollId |-> poll.id,
   userId |-> voteUserId(poll, user),
   optionId |-> selectedOption(poll, h).id]

\* mutant: the constraint violation is not told apart from other failures
insertResultUntranslated(answer) ==
  IF answer = "ok" THEN Ok ELSE AppError(MsgInsertFailed, 500)

\* mutant: every failure of the insert is taken for a duplicate
insertResultAlwaysDuplicate(answer) ==
  IF answer = "ok" THEN Ok ELSE AppError(MsgAlreadyVoted, 409)

\* what submitVote throws for the data store's answer to the insert
insertResult(answer) ==
  IF answer = "ok" THEN Ok
  ELSE IF answer = "23505" THEN AppError(MsgAlreadyVoted, 409)
  ELSE AppError(MsgInsertFailed, 500)

\* ------------------------------------------------- deletePoll, updatePoll
\* mutant: no ownership check
mayMutateAnyone(poll, user) == TRUE

\* poll.createdBy !== user.id && user.user_metadata?.role !== "admin";
\* updatePoll reads the same owner column under the name user_id
mayMutate(poll, user) == poll.createdBy = user \/ role(user) = "admin"

\* updatePoll's form check: !question || options.length < 2
updateValidation(question, options) ==
  IF question = <<>> \/ Len(filterBoolean(options)) < 2
  THEN PlainError(MsgProvide)
  ELSE Ok

\* mutant: the update also writes default settings
updatedPollResetsSettings(poll, question, options) ==
  [poll EXCEPT !.question = question,
               !.options = [i \in 1..Len(filterBoolean(options)) |->
                              [id |-> NoId, text |-> filterBoolean(options)[i]]],
               !.settings = <<>>]

\* .update({ question, options }).eq("id", pollId): the options are the
\* form's strings, which carry no id
updatedPoll(poll, question, options) ==
  [poll EXCEPT !.question = question,
               !.options = [i \in 1..Len(filterBoolean(options)) |->
                              [id |-> NoId, text |-> filterBoolean(options)[i]]]]

\* ----------------------------------------------------------- getPollById
\* PollService.getById, as getPollById returns it: the row, or the error of
\* .single() when there is none
getByIdResult(id) ==
  IF selectPolls(id) = {} THEN handleError(AppError(MsgNoRows, DEFAULT_STATUS)) ELSE Ok

\* ----------------------------------------------------------------- inputs
Query == <<"Q", "u", "e", "r", "y">>

\* Rows that exist before any request: the code reads settings, endDate and
\* private and never writes them, so rows with other values than those
\* PollService.create writes come from outside the operations modelled here.
SeedSettings ==
  {[allowMultipleVotes |-> FALSE, requireAuthentication |-> TRUE],
   [allowMultipleVotes |-> TRUE, requireAuthentication |-> TRUE],
   [allowMultipleVotes |-> FALSE, requireAuthentication |-> FALSE],
   <<>>}
seedPoll(s, e, p) ==
  [newPoll(1, Query, <<<<"a">>, <<"b">>>>, "alice")
     EXCEPT !.settings = s, !.endDate = e, !.private = p]

\* a request: its inputs, where it stands, the poll row it has read
IdleReq ==
  [op |-> "none", caller |-> Anonymous, pollId |-> 0, optionIndex |-> 0,
   question |-> <<>>, options |-> <<>>, pc |-> "idle", poll |-> NoPoll,
   result |-> Ok, startedAt |-> 0, rows |-> {}]

newReq(op, caller, pollId) ==
  [IdleReq EXCEPT !.op = op, !.caller = caller, !.pollId = pollId, !.startedAt = now]

free(r) == req[r].pc = "idle"

InitWith(seeds) ==
  /\ polls \in {{}} \cup {{p} : p \in seeds}
  /\ votes = {}
  /\ nextPollId = IF polls = {} THEN 1 ELSE 2
  /\ nextVoteId = 1
  /\ now = 0
  /\ req = [r \in Reqs |-> IdleReq]
  /\ last = IdleReq
  /\ accepted = [k \in PollIds \X Users |-> 0]

\* a request that has all its inputs either ends at once or takes slot r
begin(r, request, result, pc) ==
  IF result = Ok
  THEN /\ req' = [req EXCEPT ![r] = [request EXCEPT !.pc = pc]]
       /\ last' = IdleReq
  ELSE /\ req' = req
       /\ last' = [request EXCEPT !.pc = "done", !.result = result]

\* the request of slot r ends with result
end(r, result) ==
  /\ req' = [req EXCEPT ![r] = IdleReq]
  /\ last' = [req[r] EXCEPT !.pc = "done", !.result = result]

\* the request of slot r ends with result, having read poll
endRead(r, poll, result) ==
  /\ req' = [req EXCEPT ![r] = IdleReq]
  /\ last' = [req[r] EXCEPT !.pc = "done", !.result = result, !.poll = poll]

\* the request of slot r goes on to pc, having read poll
goto(r, pc, poll) ==
  /\ req' = [req EXCEPT ![r].pc = pc, ![r].poll = poll]
  /\ last' = last

\* time passes
Tick ==
  /\ now < MaxTime
  /\ now' = now + 1
  /\ UNCHANGED <<polls, votes, nextPollId, nextVoteId, req, last, accepted>>
  /\ UNCHANGED authVars

\* createPoll(formData): validation, then PollService.create's one insert
CreatePoll(caller, q, o) ==
  /\ nextPollId <= MaxPolls
  /\ LET result == createResult(q, o, caller)
         row == newPoll(nextPollId, sanitizeInput(q), formOptions(o), getUser(caller))
     IN /\ last' = [newReq("createPoll", caller, 0)
                      EXCEPT !.question = q, !.options = o, !.pc = "done",
                             !.result = result,
                             !.poll = IF result = Ok THEN row ELSE NoPoll]
        /\ polls' = IF result = Ok THEN polls \cup {row} ELSE polls
        /\ nextPollId' = IF result = Ok THEN nextPollId + 1 ELSE nextPollId
  /\ UNCHANGED <<votes, nextVoteId, now, req, accepted>>
  /\ UNCHANGED authVars

\* getPollById(id)
GetPollById(caller, id) ==
  /\ last' = [newReq("getPollById", caller, id)
                EXCEPT !.pc = "done",
                       !.result = getByIdResult(id),
                       !.poll = IF getByIdResult(id) = Ok
                                THEN CHOOSE p \in selectPolls(id) : TRUE
                                ELSE NoPoll]
  /\ UNCHANGED <<polls, votes, nextPollId, nextVoteId, now, req, accepted>>
  /\ UNCHANGED authVars

\* mutant: the role of the caller is not looked at
getAllForAdminResultAnyRole(caller) ==
  IF getUser(caller) = NullUser THEN PlainError(MsgNotAuthenticated) ELSE Ok

\* what getAllPollsForAdmin catches, or Ok: the action throws a plain Error
\* when there is no user; PollService.getAllForAdmin throws 403 when the
\* user's role is not admin
getAllForAdminResult(caller) ==
  IF getUser(caller) = NullUser THEN PlainError(MsgNotAuthenticated)
  ELSE IF role(getUser(caller)) # "admin"
       THEN handleError(AppError(MsgAdminsOnly, 403))
  ELSE Ok

\* getAllPollsForAdmin(): the session reads and the one select write nothing,
\* and the rows returned are those of the select
GetAllPollsForAdmin(caller) ==
  /\ last' = [newReq("getAllPollsForAdmin", caller, 0)
                EXCEPT !.pc = "done",
                       !.result = getAllForAdminResult(caller),
                       !.rows = IF getAllForAdminResult(caller) = Ok
                                THEN polls ELSE {}]
  /\ UNCHANGED <<polls, votes, nextPollId, nextVoteId, now, req, accepted>>
  /\ UNCHANGED authVars

\* submitVote(pollId, optionIndex): the integer check, then getUser
StartSubmitVote(r, caller, id, h) ==
  /\ free(r)
  /\ Cardinality({q \in Reqs : req[q].op = "submitVote"}) + nextVoteId <= MaxVotes
  /\ begin(r, [newReq("submitVote", caller, id) EXCEPT !.optionIndex = h],
           IF isInteger(h) THEN Ok ELSE handleError(AppError(MsgNotInteger, 400)),
           "getById")
  /\ UNCHANGED <<polls, votes, nextPollId, nextVoteId, now, accepted>>
  /\ UNCHANGED authVars

\* where submitVote goes once the duplicate check is passed or skipped
afterDuplicateCheck(r, poll) ==
  IF selectedOptionCheck(poll, req[r].optionIndex) # Ok
  THEN endRead(r, poll, handleError(selectedOptionCheck(poll, req[r].optionIndex)))
  ELSE goto(r, "insert", poll)

\* submitVote: the poll read and the checks that follow it
SubmitVoteGetById(r) ==
  /\ req[r].op = "submitVote" /\ req[r].pc = "getById"
  /\ LET user == getUser(req[r].caller)
         h == req[r].optionIndex
     IN IF getByIdResult(req[r].pollId) # Ok
        THEN end(r, getByIdResult(req[r].pollId))
        ELSE LET poll == CHOOSE p \in selectPolls(req[r].pollId) : TRUE
             IN IF voteChecks(poll, h, user, now) # Ok
                THEN endRead(r, poll, handleError(voteChecks(poll, h, user, now)))
                ELSE IF ~allowsMultipleVotes(poll)
                     THEN goto(r, "checkVotes", poll)
                     ELSE afterDuplicateCheck(r, poll)
  /\ UNCHANGED <<polls, votes, nextPollId, nextVoteId, now, accepted>>
  /\ UNCHANGED authVars

\* submitVote: the read of the caller's votes on the poll. For a caller
\* without identity the filter value is undefined: the data store either
\* refuses the filter or finds no row.
SubmitVoteCheckVotes(r) ==
  /\ req[r].op = "submitVote" /\ req[r].pc = "checkVotes"
  /\ LET user == getUser(req[r].caller)
     IN \/ /\ user = NullUser
           /\ end(r, handleError(AppError(MsgCheckFailed, 500)))
        \/ /\ user = NullUser
           /\ afterDuplicateCheck(r, req[r].poll)
        \/ /\ user # NullUser
           /\ selectVotes(req[r].pollId, user) # {}
           /\ end(r, handleError(AppError(MsgAlreadyVoted, 409)))
        \/ /\ user # NullUser
           /\ selectVotes(req[r].pollId, user) = {}
           /\ afterDuplicateCheck(r, req[r].poll)
  /\ UNCHANGED <<polls, votes, nextPollId, nextVoteId, now, accepted>>
  /\ UNCHANGED authVars

\* submitVote: the insert, and the translation of the data store's answer
SubmitVoteInsert(r) ==
  /\ req[r].op = "submitVote" /\ req[r].pc = "insert"
  /\ LET user == getUser(req[r].caller)
         row == newVote(nextVoteId, req[r].poll, req[r].optionIndex, user)
         answer == insertVoteAnswer(row)
     IN /\ votes' = votesAfterInsert(row, answer)
        /\ nextVoteId' = IF answer = "ok" THEN nextVoteId + 1 ELSE nextVoteId
        /\ end(r, IF insertResult(answer) = Ok THEN Ok
                  ELSE handleError(insertResult(answer)))
        /\ accepted' = IF insertResult(answer) = Ok /\ user # NullUser
                       THEN [accepted EXCEPT ![<<req[r].pollId, user>>] = @ + 1]
                       ELSE accepted
  /\ UNCHANGED <<polls, nextPollId, now>>
  /\ UNCHANGED authVars

\* deletePoll(id): getUser
StartDeletePoll(r, caller, id) ==
  /\ free(r)
  /\ begin(r, newReq("deletePoll", caller, id),
           IF getUser(caller) = NullUser
           THEN handleError(AppError(MsgNotAuthenticated, 401))
           ELSE Ok,
           "getById")
  /\ UNCHANGED <<polls, votes, nextPollId, nextVoteId, now, accepted>>
  /\ UNCHANGED authVars

\* deletePoll: the poll read and the ownership check
DeletePollGetById(r) ==
  /\ req[r].op = "deletePoll" /\ req[r].pc = "getById"
  /\ IF getByIdResult(req[r].pollId) # Ok
     THEN end(r, getByIdResult(req[r].pollId))
     ELSE LET poll == CHOOSE p \in selectPolls(req[r].pollId) : TRUE
          IN IF ~mayMutate(poll, getUser(req[r].caller))
             THEN endRead(r, poll, handleError(AppError(MsgDeleteUnauthorized, 403)))
             ELSE goto(r, "delete", poll)
  /\ UNCHANGED <<polls, votes, nextPollId, nextVoteId, now, accepted>>
  /\ UNCHANGED authVars

\* deletePoll: .from("polls").delete().eq("id", id)
DeletePollDelete(r) ==
  /\ req[r].op = "deletePoll" /\ req[r].pc = "delete"
  /\ polls' = polls \ selectPolls(req[r].pollId)
  /\ votes' = votesAfterDelete(req[r].pollId)
  /\ end(r, Ok)
  /\ UNCHANGED <<nextPollId, nextVoteId, now, accepted>>
  /\ UNCHANGED authVars

\* updatePoll(pollId, formData): the form check, then getUser
StartUpdatePoll(r, caller, id, q, o) ==
  /\ free(r)
  /\ begin(r, [newReq("updatePoll", caller, id) EXCEPT !.question = q, !.options = o],
           IF updateValidation(q, o) # Ok THEN updateValidation(q, o)
           ELSE IF getUser(caller) = NullUser THEN PlainError(MsgUpdateLogin)
           ELSE Ok,
           "selectOwner")
  /\ UNCHANGED <<polls, votes, nextPollId, nextVoteId, now, accepted>>
  /\ UNCHANGED authVars

\* updatePoll: the read of the poll's owner and the ownership check
UpdatePollSelectOwner(r) ==
  /\ req[r].op = "updatePoll" /\ req[r].pc = "selectOwner"
  /\ IF selectPolls(req[r].pollId) = {}
     THEN end(r, PlainError(MsgNoRows))
     ELSE LET poll == CHOOSE p \in selectPolls(req[r].pollId) : TRUE
          IN IF ~mayMutate(poll, getUser(req[r].caller))
             THEN endRead(r, poll, PlainError(MsgUpdateUnauthorized))
             ELSE goto(r, "update", poll)
  /\ UNCHANGED <<polls, votes, nextPollId, nextVoteId, now, accepted>>
  /\ UNCHANGED authVars

\* updatePoll: .from("polls").update({ question, options }).eq("id", pollId)
UpdatePollUpdate(r) ==
  /\ req[r].op = "updatePoll" /\ req[r].pc = "update"
  /\ polls' = {IF p.id = req[r].pollId
               THEN updatedPoll(p, req[r].question, req[r].options)
               ELSE p : p \in polls}
  /\ end(r, Ok)
  /\ UNCHANGED <<votes, nextVoteId, nextPollId, now, accepted>>
  /\ UNCHANGED authVars

\* the steps that requests in flight take
Step(r) ==
  \/ SubmitVoteGetById(r)
  \/ SubmitVoteCheckVotes(r)
  \/ SubmitVoteInsert(r)
  \/ DeletePollGetById(r)
  \/ DeletePollDelete(r)
  \/ UpdatePollSelectOwner(r)
  \/ UpdatePollUpdate(r)

\* ------------------------------------------------------------ rate limiter
\* AUTH.RATE_LIMIT
WINDOW == 60 * 1000
MAX_ATTEMPTS == 5

\* a Map without keys, and Map.set / Map.delete
EmptyMap == [k \in {} |-> 0]
mapSet(map, key, value) ==
  [k \in DOMAIN map \cup {key} |-> IF k = key THEN value ELSE map[k]]
mapDelete(map, key) == [k \in DOMAIN map \ {key} |-> map[k]]

\* now - (now % windowMs)
currentWindowStart(t) == t - (t % WINDOW)

\* mutant: an entry never expires
isLimitedNoExpiry(map, key, t) ==
  IF key \notin DOMAIN map THEN FALSE
  ELSE map[key].count >= MAX_ATTEMPTS

\* RateLimiter.isLimited(key): what it returns at time t ...
isLimited(map, key, t) ==
  IF key \notin DOMAIN map THEN FALSE
  ELSE IF t - map[key].windowStart > WINDOW THEN FALSE
  ELSE map[key].count >= MAX_ATTEMPTS

\* ... and the Map it leaves
isLimitedCache(map, key, t) ==
  IF key \notin DOMAIN map \/ t - map[key].windowStart > WINDOW
  THEN mapSet(map, key, [count |-> 1, windowStart |-> currentWindowStart(t)])
  ELSE map

\* RateLimiter.increment(key): the Map it leaves
increment(map, key, t) ==
  IF key \notin DOMAIN map \/ t - map[key].windowStart > WINDOW
  THEN mapSet(map, key, [count |-> 1, windowStart |-> currentWindowStart(t)])
  ELSE mapSet(map, key, [count |-> map[key].count + 1,
                         windowStart |-> map[key].windowStart])

\* RateLimiter.reset(key): the Map it leaves
reset(map, key) == mapDelete(map, key)

\* ------------------------------------------------------------ AuthService
\* AUTH.VALIDATION
PASSWORD_MIN_LENGTH == 8

\* EMAIL_REGEX /^[^\s@]+@[^\s@]+\.[^\s@]+$/ : an "@" at i and a "." at j
\* with something before, between and after, and no other "@" and no
\* white space anywhere
EMAIL_REGEX(s) ==
  \E i, j \in 1..Len(s) :
    /\ 1 < i /\ i + 1 < j /\ j < Len(s)
    /\ s[i] = "@" /\ s[j] = "."
    /\ \A k \in 1..Len(s) : k # i => (s[k] \notin Whitespace /\ s[k] # "@")

LowerLetters ==
  {"a", "b", "c", "d", "e", "f", "g", "h", "i", "j", "k", "l", "m",
   "n", "o", "p", "q", "r", "s", "t", "u", "v", "w", "x", "y", "z"}
UpperLetters ==
  {"A", "B", "C", "D", "E", "F", "G", "H", "I", "J", "K", "L", "M",
   "N", "O", "P", "Q", "R", "S", "T", "U", "V", "W", "X", "Y", "Z"}
Digits == {"0", "1", "2", "3", "4", "5", "6", "7", "8", "9"}
Symbols ==
  {"!", "@", "#", "$", "%", "^", "&", "*", "(", ")", "_", "+", "-", "=",
   "[", "]", "{", "}", ";", "'", ":", "\"", "\\", "|", ",", ".", "<", ">",
   "/", "?"}

\* PASSWORD_REGEX: a lower-case letter, an upper-case letter, a digit and a
\* symbol somewhere, and eight or more characters none of which ends a line
PASSWORD_REGEX(s) ==
  /\ \E k \in 1..Len(s) : s[k] \in LowerLetters
  /\ \E k \in 1..Len(s) : s[k] \in UpperLetters
  /\ \E k \in 1..Len(s) : s[k] \in Digits
  /\ \E k \in 1..Len(s) : s[k] \in Symbols
  /\ Len(s) >= 8
  /\ \A k \in 1..Len(s) : s[k] # "\n"

MsgTooMany == "Too many login attempts. Please try again later."
MsgInvalidEmail == "Invalid email format"
MsgSignIn == "Supabase signIn error: Invalid login credentials"
MsgPasswordShort == "Password must be at least 8 characters long"
MsgSignUp == "Supabase signUp error: User already registered"

\* supabase.auth.signInWithPassword: the provider knows the pair or not
signInWithPassword(email, password) ==
  IF email \in DOMAIN accounts /\ accounts[email] = password THEN "ok" ELSE "error"

\* supabase.auth.signUp: the provider creates the account unless the email
\* has one
signUp(email, password) ==
  IF email \in DOMAIN accounts THEN "error" ELSE "ok"

\* mutant: the email format is checked before the rate limit
loginResultEmailFirst(email, password) ==
  IF ~EMAIL_REGEX(email) THEN handleError(AppError(MsgInvalidEmail, DEFAULT_STATUS))
  ELSE IF isLimited(cache, email, now) THEN handleError(AppError(MsgTooMany, 429))
  ELSE IF signInWithPassword(email, password) # "ok"
       THEN handleError(AppError(MsgSignIn, DEFAULT_STATUS))
  ELSE Ok

\* what AuthService.login throws, or Ok: the rate limit, the email format,
\* then the provider's answer; the catch block hands the AppError on
loginResult(email, password) ==
  IF isLimited(cache, email, now) THEN handleError(AppError(MsgTooMany, 429))
  ELSE IF ~EMAIL_REGEX(email) THEN handleError(AppError(MsgInvalidEmail, DEFAULT_STATUS))
  ELSE IF signInWithPassword(email, password) # "ok"
       THEN handleError(AppError(MsgSignIn, DEFAULT_STATUS))
  ELSE Ok

\* whether AuthService.register gets as far as supabase.auth.signUp
registerReachesSignUp(email, password) ==
  EMAIL_REGEX(email) /\ ~(Len(password) < PASSWORD_MIN_LENGTH)

\* what AuthService.register throws, or Ok
registerResult(email, password) ==
  IF ~EMAIL_REGEX(email) THEN handleError(AppError(MsgInvalidEmail, DEFAULT_STATUS))
  ELSE IF Len(password) < PASSWORD_MIN_LENGTH
       THEN handleError(AppError(MsgPasswordShort, DEFAULT_STATUS))
  ELSE IF signUp(email, password) # "ok"
       THEN handleError(AppError(MsgSignUp, DEFAULT_STATUS))
  ELSE Ok

\* the rejected logins of email recorded in the window of time t
failedInWindow(email, t) ==
  IF email \in DOMAIN failed /\ failed[email].windowStart = currentWindowStart(t)
  THEN failed[email].count
  ELSE 0

NoAuthCall ==
  [op |-> "none", email |-> <<>>, password |-> <<>>, result |-> Ok, at |-> 0,
   failedBefore |-> 0, reachedProvider |-> FALSE]

\* the call isLimited(key) at time t, as the history keeps it
NoLimiterCall ==
  [key |-> <<>>, at |-> 0, answer |-> FALSE, had |-> FALSE, count |-> 0, windowStart |-> 0]
limiterCall(key, t) ==
  [key |-> key, at |-> t, answer |-> isLimited(cache, key, t),
   had |-> key \in DOMAIN cache,
   count |-> IF key \in DOMAIN cache THEN cache[key].count ELSE 0,
   windowStart |-> IF key \in DOMAIN cache THEN cache[key].windowStart ELSE 0]

InitAuthWith(seedAccounts) ==
  /\ cache = EmptyMap
  /\ accounts \in seedAccounts
  /\ authLast = NoAuthCall
  /\ failed = EmptyMap
  /\ limiterLast = NoLimiterCall

\* time passes, half a window at a time
Pass ==
  /\ now < MaxWindows * WINDOW
  /\ now' = now + WINDOW \div 2
  /\ UNCHANGED pollVars
  /\ UNCHANGED authVars

\* login(data): AuthService.login. Nothing is written after the provider's
\* answer, so the call is one step.
Login(email, password) ==
  /\ failedInWindow(email, now) < MaxFailed
  /\ cache' = isLimitedCache(cache, email, now)
  /\ limiterLast' = limiterCall(email, now)
  /\ authLast' = [op |-> "login", email |-> email, password |-> password,
                  result |-> loginResult(email, password), at |-> now,
                  failedBefore |-> failedInWindow(email, now),
                  reachedProvider |->
                    ~isLimited(cache, email, now) /\ EMAIL_REGEX(email)]
  /\ failed' = IF loginResult(email, password) = AppError(MsgSignIn, DEFAULT_STATUS)
               THEN mapSet(failed, email,
                           [count |-> failedInWindow(email, now) + 1,
                            windowStart |-> currentWindowStart(now)])
               ELSE failed
  /\ UNCHANGED accounts
  /\ UNCHANGED now
  /\ UNCHANGED pollVars

\* register(data): AuthService.register
Register(email, password) ==
  /\ authLast' = [op |-> "register", email |-> email, password |-> password,
                  result |-> registerResult(email, password), at |-> now,
                  failedBefore |-> failedInWindow(email, now),
                  reachedProvider |-> registerReachesSignUp(email, password)]
  /\ accounts' = IF registerResult(email, password) = Ok
                 THEN mapSet(accounts, email, password)
                 ELSE accounts
  /\ UNCHANGED <<cache, failed, limiterLast>>
  /\ UNCHANGED now
  /\ UNCHANGED pollVars

\* rateLimiter.isLimited(key), called on the exported singleton
IsLimited(key) ==
  /\ cache' = isLimitedCache(cache, key, now)
  /\ limiterLast' = limiterCall(key, now)
  /\ UNCHANGED <<accounts, authLast, failed>>
  /\ UNCHANGED now
  /\ UNCHANGED pollVars

\* rateLimiter.increment(key)
Increment(key) ==
  /\ key \in DOMAIN cache => cache[key].count < MaxCount
  /\ cache' = increment(cache, key, now)
  /\ UNCHANGED <<accounts, authLast, failed, limiterLast>>
  /\ UNCHANGED now
  /\ UNCHANGED pollVars

\* rateLimiter.reset(key)
Reset(key) ==
  /\ cache' = reset(cache, key)
  /\ UNCHANGED <<accounts, authLast, failed, limiterLast>>
  /\ UNCHANGED now
  /\ UNCHANGED pollVars

\* ------------------------------------------------- what the actions return
\* the poll actions return { error: error.message } from their catch blocks
\* and { error: null } on success: of the error they caught only the message
\* crosses the boundary
pollActionReturn(result) ==
  IF result = Ok THEN [error |-> NoError]
  ELSE [error |-> [message |-> result.error]]

\* login and register return { success: true }, or an error object with
\* error.message, error.code || "AUTH_LOGIN_ERROR" (an AppError thrown by
\* AuthService has no code) and error.statusCode || 500
authActionReturn(op, result) ==
  IF result = Ok THEN [success |-> TRUE]
  ELSE [error |->
          [message |-> result.error,
           code |-> IF op = "login" THEN "AUTH_LOGIN_ERROR" ELSE "AUTH_REGISTER_ERROR",
           statusCode |-> IF result.statusCode # 0 THEN result.statusCode ELSE 500]]

\* ---------------------------------------------------------- specifications
\* Spec: requests of several callers interleave at their data store calls.
New == <<"N", "e", "w">>
RaceSeeds ==
  {seedPoll([allowMultipleVotes |-> m, requireAuthentication |-> TRUE], {}, FALSE) :
     m \in BOOLEAN}
RaceVoters == {"alice", "bob"}
RaceIndexInputs == {0}

NoAccounts == EmptyMap

Init == InitWith(RaceSeeds) /\ InitAuthWith({NoAccounts})

Next ==
  \/ \E caller \in {"alice", "bob"} :
       CreatePoll(caller, Query, <<<<"A">>, <<"a">>, <<"B">>>>)
  \/ \E r \in Reqs :
       \/ \E caller \in RaceVoters, id \in PollIds, h \in RaceIndexInputs :
            StartSubmitVote(r, caller, id, h)
       \/ \E caller \in Users, id \in PollIds : StartDeletePoll(r, caller, id)
       \/ \E caller \in Users, id \in PollIds, q \in {<<>>, New} :
            StartUpdatePoll(r, caller, id, q, <<<<"A">>, <<"A">>>>)
       \/ Step(r)

Spec == Init /\ [][Next]_vars

\* SpecSeq: one request at a time, over every kind of poll row, caller and
\* option index, with the clock running.
SeqSeeds ==
  {seedPoll(s, e, FALSE) : s \in SeedSettings, e \in {{}, {0}}}
    \cup {seedPoll([allowMultipleVotes |-> FALSE, requireAuthentication |-> TRUE],
                   {}, TRUE)}
\* optionIndex -1, 0, 0.5, 1 and 2, in halves
IndexInputs == {-2, 0, 1, 2, 4}

InitSeq == InitWith(SeqSeeds) /\ InitAuthWith({NoAccounts})

NextSeq ==
  \/ Tick
  \/ /\ free(1)
     /\ \E caller \in {"alice", Anonymous} :
          CreatePoll(caller, Query, <<<<"A">>, <<"a">>, <<"B">>>>)
  \/ /\ free(1)
     /\ \E caller \in Callers, id \in PollIds : GetPollById(caller, id)
  \/ /\ free(1)
     /\ \E caller \in Callers : GetAllPollsForAdmin(caller)
  \/ \E caller \in Callers, id \in PollIds, h \in IndexInputs :
       StartSubmitVote(1, caller, id, h)
  \/ \E id \in PollIds : StartDeletePoll(1, "alice", id)
  \/ \E id \in PollIds : StartUpdatePoll(1, "alice", id, New, <<<<"A">>, <<"A">>>>)
  \/ Step(1)

SpecSeq == InitSeq /\ [][NextSeq]_vars

\* SpecAuth: logins and registrations of one address, well-formed or not,
\* with the clock running over the rate limiter's windows.
UserEmail == <<"u", "@", "e", ".", "c">>
BadEmail == <<"u", "e", ".", "c">>
AuthEmails == {UserEmail, BadEmail}
WeakPassword == <<"a", "b", "c", "1", "2", "3", "4", "5">>
StrongPassword == <<"A", "b", "c", "1", "2", "3", "!", "@">>
ShortPassword == <<"A", "b", "1", "!">>
AuthPasswords == {WeakPassword, StrongPassword, ShortPassword}

InitAuth ==
  /\ InitWith({})
  /\ InitAuthWith({NoAccounts, mapSet(NoAccounts, UserEmail, StrongPassword)})

NextAuth ==
  \/ Pass
  \/ \E email \in AuthEmails, password \in AuthPasswords : Login(email, password)
  \/ \E email \in AuthEmails, password \in AuthPasswords : Register(email, password)

SpecAuth == InitAuth /\ [][NextAuth]_vars

\* SpecLimiter: the rate limiter's methods called on the exported singleton
\* for one key, and logins of that address, with the clock running.
InitLimiter ==
  /\ InitWith({})
  /\ InitAuthWith({mapSet(NoAccounts, UserEmail, StrongPassword)})

NextLimiter ==
  \/ Pass
  \/ IsLimited(UserEmail)
  \/ Increment(UserEmail)
  \/ Reset(UserEmail)
  \/ Login(UserEmail, StrongPassword)

SpecLimiter == InitLimiter /\ [][NextLimiter]_vars

\* SpecThrottle: logins of an address written in two ways and of a malformed
\* one, while attempts are recorded in the rate limiter; the clock stands.
UpperEmail == <<"U", "@", "e", ".", "c">>
ThrottleEmails == {UserEmail, UpperEmail, BadEmail}

NextThrottle ==
  \/ \E key \in {UserEmail, BadEmail} : Increment(key)
  \/ \E email \in ThrottleEmails, password \in {StrongPassword, WeakPassword} :
       Login(email, password)

SpecThrottle == InitLimiter /\ [][NextThrottle]_vars

\* SpecUpdate: two stored polls, one of alice and one of bob, and the
\* requests that write poll rows, updatePoll and deletePoll, of every user on
\* both, interleaved.
TwoPolls ==
  {seedPoll([allowMultipleVotes |-> TRUE, requireAuthentication |-> FALSE], {0}, TRUE),
   newPoll(2, Query, <<<<"a">>, <<"b">>>>, "bob")}
TwoPollIds == {p.id : p \in TwoPolls}

InitUpdate ==
  /\ polls = TwoPolls
  /\ votes = {}
  /\ nextPollId = 3
  /\ nextVoteId = 1
  /\ now = 0
  /\ req = [r \in Reqs |-> IdleReq]
  /\ last = IdleReq
  /\ accepted = [k \in PollIds \X Users |-> 0]
  /\ InitAuthWith({NoAccounts})

NextUpdate ==
  \E r \in Reqs :
    \/ \E caller \in Users, id \in TwoPollIds, q \in {<<>>, New} :
         StartUpdatePoll(r, caller, id, q, <<<<"A">>, <<"A">>>>)
    \/ \E caller \in Users, id \in TwoPollIds : StartDeletePoll(r, caller, id)
    \/ UpdatePollSelectOwner(r)
    \/ UpdatePollUpdate(r)
    \/ DeletePollGetById(r)
    \/ DeletePollDelete(r)

SpecUpdate == InitUpdate /\ [][NextUpdate]_vars

\* SpecCreate: createPoll over forms whose options repeat, differ in case,
\* carry white space or are empty.
OptionInputs == {<<"A">>, <<"a">>, <<"B">>, <<" ", "a">>, <<>>}
MaxOptions == 3
OptionLists == UNION {[1..n -> OptionInputs] : n \in 0..MaxOptions}
QuestionInputs == {Query, <<"Q">>}

InitCreate == InitWith({}) /\ InitAuthWith({NoAccounts})

NextCreate ==
  \/ \E q \in QuestionInputs, o \in OptionLists : CreatePoll("alice", q, o)
  \/ \E q \in QuestionInputs : CreatePoll(Anonymous, q, <<<<"A">>, <<"a">>, <<"B">>>>)

SpecCreate == InitCreate /\ [][NextCreate]_vars

\* ------------------------------------------------------------------ claims
Unauthorized == {MsgDeleteUnauthorized, MsgUpdateUnauthorized}
DuplicateVote == AppError(MsgAlreadyVoted, 409)

\* the last request was a submitVote of an identified user that passes every
\* check of submitVote before the duplicate check, on the poll row it read
lastIsValidVote ==
  /\ last.op = "submitVote"
  /\ getUser(last.caller) # NullUser
  /\ isInteger(last.optionIndex)
  /\ last.poll # NoPoll
  /\ voteChecks(last.poll, last.optionIndex, getUser(last.caller), last.startedAt) = Ok
  /\ selectedOptionCheck(last.poll, last.optionIndex) = Ok

\* C1: on a poll that does not allow multiple votes, every valid submitVote of
\* an identified user, however it interleaves with other calls for the same
\* (poll, user), ends in success or in DuplicateVote (409); exactly one call
\* for the pair has succeeded and exactly one Vote row of the pair is stored.
C1_ExactlyOneVote ==
  (/\ lastIsValidVote
   /\ ~allowsMultipleVotes(last.poll)
   /\ selectPolls(last.pollId) # {})
  => /\ last.result \in {Ok, DuplicateVote}
     /\ Cardinality(selectVotes(last.pollId, getUser(last.caller))) = 1
     /\ accepted[<<last.pollId, getUser(last.caller)>>] = 1

\* C1 witness: a call has just succeeded while another call for the same
\* (poll, user), which passed the existing-vote read before, is about to insert
C1_Witness ==
  /\ lastIsValidVote
  /\ ~allowsMultipleVotes(last.poll)
  /\ last.result = Ok
  /\ \E r \in Reqs :
       /\ req[r].op = "submitVote" /\ req[r].pc = "insert"
       /\ req[r].pollId = last.pollId /\ req[r].caller = last.caller

ownerOrAdmin(p, caller) == caller = p.createdBy \/ caller = "root"

\* the last request was an updatePoll or deletePoll of an identified caller
\* who is neither the owner of the stored poll nor an admin
lastIsForeignMutation ==
  /\ last.op \in {"updatePoll", "deletePoll"}
  /\ last.caller \in Users
  /\ \E p \in selectPolls(last.pollId) : ~ownerOrAdmin(p, last.caller)

\* C4 as claimed: such a call always returns Unauthorized.
C4_AlwaysUnauthorized ==
  lastIsForeignMutation => last.result.error \in Unauthorized

\* a step in which the request of slot r ends
ends(r) == req[r].pc # "idle" /\ req'[r].pc = "idle"

\* C4, amended: such a call never succeeds and returns Unauthorized unless
\* it is an updatePoll whose form lacks a question or has fewer than two
\* options; a failing updatePoll or deletePoll changes neither polls nor votes,
\* and a poll row is changed or removed only by the step of an updatePoll or
\* deletePoll of its owner or of an admin.
C4_OwnershipGate ==
  /\ [](lastIsForeignMutation =>
          /\ last.result # Ok
          /\ (last.op = "deletePoll" \/ updateValidation(last.question, last.options) = Ok)
               => last.result.error \in Unauthorized)
  /\ [][/\ \A r \in Reqs :
            (req[r].op \in {"updatePoll", "deletePoll"} /\ ends(r) /\ last'.result # Ok)
              => (polls' = polls /\ votes' = votes)
        /\ \A p \in polls :
            p \notin polls' =>
              \E r \in Reqs :
                /\ req[r].op \in {"updatePoll", "deletePoll"} /\ ends(r)
                /\ req[r].pollId = p.id
                /\ ownerOrAdmin(p, req[r].caller)]_vars

\* C4 witness: a member's deletePoll on another user's poll was refused and
\* the poll is still stored
C4_Witness ==
  /\ lastIsForeignMutation
  /\ last.op = "deletePoll"
  /\ last.result.error = MsgDeleteUnauthorized

\* ---------------------------------------------------- sequential requests
\* the stored poll a request names, when there is one
storedPoll(id) == CHOOSE p \in selectPolls(id) : TRUE

\* C3 as claimed: getPollById on a private poll hands the poll to its
\* creator only; any other caller gets an error and no poll.
C3_PrivateOnlyToCreator ==
  (/\ last.op = "getPollById"
   /\ selectPolls(last.pollId) # {}
   /\ storedPoll(last.pollId).private
   /\ last.caller # storedPoll(last.pollId).createdBy)
    => (last.result # Ok /\ last.poll = NoPoll)

\* a submitVote r names a stored poll whose end date had passed when the
\* call began
onEndedPoll(r) ==
  /\ r.op = "submitVote"
  /\ selectPolls(r.pollId) # {}
  /\ \E d \in storedPoll(r.pollId).endDate : r.startedAt > d

\* the index of a submitVote r is an integer inside the options of the poll
indexInRange(r) ==
  /\ r.optionIndex % 2 = 0
  /\ r.optionIndex \div 2 >= 0
  /\ r.optionIndex \div 2 < Len(storedPoll(r.pollId).options)

\* the poll of a submitVote r asks for an identified voter
asksForIdentity(r) ==
  LET settings == storedPoll(r.pollId).settings
  IN "requireAuthentication" \in DOMAIN settings => settings.requireAuthentication

VotingClosed == AppError(MsgEnded, 403)

badIndex(r) ==
  /\ r.op = "submitVote"
  /\ selectPolls(r.pollId) # {}
  /\ ~indexInRange(r)

RateLimited == AppError(MsgTooMany, 429)

\* C7 as claimed: a login for an email that has had 5 rejected logins inside
\* the current rate-limit window returns RateLimited (429).
C7_SixthLoginLimited ==
  (authLast.op = "login" /\ authLast.failedBefore >= 5)
    => authLast.result = RateLimited

\* C8 as claimed: when a login has succeeded, the rate limiter holds no entry
\* for its email.
C8_SuccessClearsEntry ==
  (authLast.op = "login" /\ authLast.result = Ok)
    => authLast.email \notin DOMAIN cache

\* C9 as claimed: a register call whose password lacks an upper-case letter,
\* a lower-case letter, a digit, a symbol or the length of 8 fails with status
\* 400 without reaching the identity provider, and no account holds such a
\* password.
C9_OnlyStrongPasswords ==
  /\ (authLast.op = "register" /\ ~PASSWORD_REGEX(authLast.password))
       => (~authLast.reachedProvider /\ authLast.result.statusCode = 400)
  /\ \A email \in DOMAIN accounts : PASSWORD_REGEX(accounts[email])

\* -------------------------------------------------------------- createPoll
\* the option texts of a form that differ from each other once sanitized and
\* lower-cased, the empty ones left out
distinctOptions(options) ==
  {toLowerCase(sanitizeInput(options[i])) : i \in 1..Len(options)} \ {<<>>}

\* C10: every stored poll has at least 2 options, pairwise different under
\* case-insensitive comparison; a createPoll with a well-formed question by an
\* identified caller stores a poll exactly when its form has at least 2
\* options that differ case-insensitively, and the stored poll has one option
\* for each of them.
C10_DistinctOptions ==
  /\ \A p \in polls :
       /\ Len(p.options) >= 2
       /\ \A i, j \in 1..Len(p.options) :
            i # j => toLowerCase(p.options[i].text) # toLowerCase(p.options[j].text)
  /\ (last.op = "createPoll" /\ Len(last.question) >= 5 /\ last.caller \in Users)
       => /\ last.result = Ok <=> Cardinality(distinctOptions(last.options)) >= 2
          /\ last.result = Ok =>
               /\ last.poll \in polls
               /\ Len(last.poll.options) = Cardinality(distinctOptions(last.options))
  /\ (last.op = "createPoll" /\ last.result # Ok) => last.poll = NoPoll

\* C10 witness: the form with options A, a, B has been stored as a poll with
\* exactly two options
C10_Witness ==
  /\ last.op = "createPoll"
  /\ last.options = <<<<"A">>, <<"a">>, <<"B">>>>
  /\ last.result = Ok
  /\ last.poll \in polls
  /\ Len(last.poll.options) = 2

\* ------------------------------------------------------ getAllPollsForAdmin
\* C11: getAllPollsForAdmin returns all stored polls when the caller is the
\* admin; for an identified caller who is not the admin it fails with
\* Unauthorized (403), for an anonymous caller with "Not authenticated", and
\* in both cases it returns no poll.
C11_AdminOnlyListing ==
  last.op = "getAllPollsForAdmin" =>
    /\ last.caller = "root" => (last.result = Ok /\ last.rows = polls)
    /\ last.caller \in Users \ {"root"} =>
         (last.result = AppError(MsgAdminsOnly, 403) /\ last.rows = {})
    /\ last.caller = Anonymous =>
         (last.result.error = MsgNotAuthenticated /\ last.rows = {})

\* C11 witness: a member asked for the listing while a poll is stored, and
\* was refused
C11_Witness ==
  /\ last.op = "getAllPollsForAdmin"
  /\ last.caller = "bob"
  /\ polls # {}
  /\ last.result.statusCode = 403
  /\ last.rows = {}

\* ---------------------------------------------------------- error values
\* C12 as claimed: a poll action that fails returns an error value carrying
\* message, code and statusCode.
C12_StructuredErrors ==
  (last.op # "none" /\ last.result # Ok)
    => {"message", "code", "statusCode"} \subseteq DOMAIN pollActionReturn(last.result).error

\* ------------------------------------------------- createPoll and identity
Unauthenticated == AppError(MsgNotAuthenticated, 401)

anonymousOnIdentityPoll(r) ==
  /\ r.op = "submitVote"
  /\ r.caller = Anonymous
  /\ selectPolls(r.pollId) # {}
  /\ asksForIdentity(r)

insertAnswered(r) ==
  /\ req[r].op = "submitVote" /\ req[r].pc = "insert"
  /\ req'[r].pc = "idle"

C16_MissingPollNotFound ==
  (/\ last.op \in {"getPollById", "submitVote", "updatePoll", "deletePoll"}
   /\ last.pollId >= nextPollId)
    => last.result.statusCode = 404

\* ----------------------------------------------------- updatePoll's checks
\* C17 as claimed: every stored poll has a question of 5 to 200 characters
\* and at least 2 options, pairwise different under case-insensitive
\* comparison.
C17_StoredPollsValid ==
  \A p \in polls :
    /\ Len(p.question) >= 5 /\ Len(p.question) <= 200
    /\ Len(p.options) >= 2
    /\ \A i, j \in 1..Len(p.options) :
         i # j => toLowerCase(p.options[i].text) # toLowerCase(p.options[j].text)

\* ------------------------------------------------------ votes are facts
\* the step belongs to a submitVote call: one begins, goes on or ends
submitVoteStep ==
  \/ \E r \in Reqs :
       /\ req'[r] # req[r]
       /\ req[r].op = "submitVote" \/ req'[r].op = "submitVote"
  \/ last' # last /\ last'.op = "submitVote"

\* C18: no step of submitVote changes the polls relation; a stored vote row
\* is never changed, and it is removed only in a step that removes the poll
\* it refers to.
C18_VotesAreFacts ==
  [][/\ submitVoteStep => polls' = polls
     /\ \A v \in votes :
          \/ v \in votes'
          \/ /\ \A w \in votes' : w.id # v.id
             /\ \E p \in polls : p.id = v.pollId /\ \A q \in polls' : q.id # p.id]_vars

\* C18 witness: a second vote of the same user was turned down and the first
\* vote is stored as it was, with the poll
C18_Witness ==
  /\ last.op = "submitVote"
  /\ last.result = DuplicateVote
  /\ \E v \in votes :
       /\ v.id = 1 /\ v.pollId = last.pollId /\ v.userId = last.caller
       /\ v.optionId = <<last.pollId, 1>>
  /\ Cardinality(votes) = 1
  /\ polls # {}

\* ------------------------------------------------- register and the limiter
\* C19 as claimed: register goes through the rate limiter of its email, so
\* that after a registration that the identity provider rejected the limiter
\* holds a counter for the email.
C19_RegisterUsesLimiter ==
  (authLast.op = "register" /\ authLast.result = AppError(MsgSignUp, DEFAULT_STATUS))
    => (authLast.email \in DOMAIN cache /\ cache[authLast.email].count >= 1)

endsWith(r, e) == req'[r].pc = "idle" /\ last'.result = e

\* the last two stops: the selected option of the poll read must have an
\* id, then the insert
optionThenInsert(r) ==
  IF req'[r].pc = "idle"
  THEN /\ last'.result = AppError(MsgInvalidOption, 400)
       /\ last'.poll.options[(req[r].optionIndex \div 2) + 1].id = <<>>
  ELSE /\ req'[r].pc = "insert"
       /\ req'[r].poll.options[(req[r].optionIndex \div 2) + 1].id # <<>>

C21_MultipleVotesAccepted ==
  (/\ last.op = "submitVote"
   /\ last.caller \in Users
   /\ selectPolls(last.pollId) # {}
   /\ last.poll \in polls
   /\ allowsMultipleVotes(last.poll)
   /\ indexInRange(last)
   /\ last.poll.options[(last.optionIndex \div 2) + 1].id # <<>>
   /\ last.poll.endDate = {})
    => last.result = Ok

\* C22 as claimed: a submitVote without identity never gets to the read of
\* the caller's stored votes.
C22_AnonymousSkipsCheck ==
  \A r \in Reqs :
    (req[r].op = "submitVote" /\ req[r].caller = Anonymous) => req[r].pc # "checkVotes"

\* C29 as claimed: every vote row refers to a stored poll and to the id of
\* one of the options that poll has now.
C29_VotesReferenceOptions ==
  \A v \in votes :
    \E p \in polls :
      /\ p.id = v.pollId
      /\ \E i \in 1..Len(p.options) : p.options[i].id = v.optionId

\* ------------------------------------------------- login and the limiter
\* the login that ended last met a limiter entry of its email that had
\* reached 5 attempts (the clock of SpecThrottle stands, so no entry expires)
lastLoginWasLimited ==
  /\ authLast.op = "login"
  /\ limiterLast.key = authLast.email
  /\ limiterLast.had /\ limiterLast.count >= 5

\* an address without "@"
malformed(email) == \A k \in 1..Len(email) : email[k] # "@"

\* C23: login asks the rate limiter first. For a limited email it returns
\* RateLimited (429), whatever the email's format and the password, without
\* calling the identity provider; for an email that is not limited and is
\* malformed it returns status 400 without calling the provider; otherwise it
\* calls the provider.
C23_LimiterBeforeFormat ==
  authLast.op = "login" =>
    /\ limiterLast.key = authLast.email
    /\ IF lastLoginWasLimited
       THEN authLast.result = RateLimited /\ ~authLast.reachedProvider
       ELSE IF malformed(authLast.email)
            THEN /\ authLast.result = AppError(MsgInvalidEmail, 400)
                 /\ ~authLast.reachedProvider
            ELSE authLast.reachedProvider /\ authLast.result # RateLimited

\* C23 witness: the login of a malformed and limited email was refused with
\* RateLimited
C23_Witness ==
  /\ lastLoginWasLimited
  /\ authLast.email = BadEmail
  /\ authLast.result = RateLimited

\* C24 as claimed: the keys of the rate limiter are normalized emails,
\* trimmed and in lower case.
C24_KeysNormalized ==
  \A key \in DOMAIN cache : key = toLowerCase(trim(key))

\* ------------------------------------------------------- the rate limiter
\* C25 as claimed: isLimited answers true exactly when it meets an entry
\* whose windowStart is the current time floored to a multiple of the window
\* and whose count has reached 5.
C25_LimitedOnlyInCurrentWindow ==
  limiterLast.answer <=>
    /\ limiterLast.had
    /\ limiterLast.windowStart = limiterLast.at - (limiterLast.at % 60000)
    /\ limiterLast.count >= 5

\* C26 as claimed: a call of isLimited records nothing in the rate limiter.
C26_IsLimitedRecordsNothing ==
  [][limiterLast' # limiterLast => cache' = cache]_vars

sameButQuestionAndOptions(p, q) ==
  /\ q.id = p.id
  /\ q.createdBy = p.createdBy
  /\ q.settings = p.settings
  /\ q.endDate = p.endDate
  /\ q.private = p.private

\* the step is the write of the updatePoll request of slot r
updateWrites(r) ==
  /\ req[r].op = "updatePoll" /\ req[r].pc = "update"
  /\ req'[r].pc = "idle"

\* C30: no step changes the createdBy of a stored poll; the write of
\* updatePoll, by the owner or by an admin, leaves the id, createdBy and
\* settings of the poll it updates as they were, stores the question it was
\* given, and leaves every other poll row as it was.
C30_UpdateFrame ==
  [][/\ \A p \in polls : \A q \in polls' : q.id = p.id => q.createdBy = p.createdBy
     /\ \A r \in Reqs :
          updateWrites(r) =>
            /\ \A p \in polls :
                 IF p.id = req[r].pollId
                 THEN \E q \in polls' : /\ sameButQuestionAndOptions(p, q)
                                        /\ q.question = req[r].question
                 ELSE p \in polls'
            /\ Cardinality(polls') = Cardinality(polls)]_vars

\* C30 witness: the admin has updated alice's poll, which is still alice's
\* and has the new question, beside bob's poll
C30_Witness ==
  /\ last.op = "updatePoll" /\ last.caller = "root" /\ last.result = Ok
  /\ \E p \in polls : p.id = last.pollId /\ p.createdBy = "alice" /\ p.question = New
  /\ \E p \in polls : p.id # last.pollId /\ p.createdBy = "bob"

\* C28 as claimed: a failure of the identity provider reaches the caller
\* with status 500.
C28_ProviderFailuresAre500 ==
  (authLast.reachedProvider /\ authLast.result # Ok) => authLast.result.statusCode = 500

====
